---- MODULE Spec2Model ----
(***************************************************************************)
(* Storage-constrained transcription pipeline of YTVideoTranscriber:       *)
(* DatabaseManager (videos / transcriptions tables), the optimized         *)
(* downloader, the optimized transcription engine and the optimized        *)
(* orchestrator.  Sizes are in MB; a path is the pair <<video_id, ext>>    *)
(* (channel directory and safe title are fixed per video); the download    *)
(* directory is the sequence of its files, oldest modification time first. *)
(***************************************************************************)
EXTENDS Integers, Sequences, FiniteSets, TLC

\* ---------------------------------------------------------------- bounds
MaxVideos == 2
MaxOps == 3
\* threads that run background tasks of the API at the same time
MaxThreads == 2
\* jobs the schedule can hold
MaxJobs == 2
\* retry counts the Item Store is driven to when its methods are called directly
MaxRetries == 1
\* Video.status
Statuses == {"pending", "downloading", "downloaded", "transcribing", "completed", "failed"}

\* ------------------------------------------------------ program constants
MaxTempStorageMB == 2048
MaxFileSizeMB == 100

Ids == 1..MaxVideos
Threads == 1..MaxThreads
\* sizes (MB) a remote payload can have
Sizes == {60, 1700}
\* extensions of the files yt-dlp writes (the audio format it selects)
DlExts == {"m4a"}
\* the extensions download_video_optimized looks for, in its order
SearchExts == <<"mp3", "m4a", "webm", "wav">>
\* the extensions cleanup_temp_files treats as audio payloads
AudioExts == {"wav", "mp3", "m4a", "webm"}

NoPath == <<>>
NoVideo == [video_id |-> 0, download_path |-> NoPath]
NoSummary == [total_videos |-> 0, successful |-> 0, failed |-> 0]
\* estimated_size_mb when no size is known
NoEstimate == 0
\* sizes (MB) of a file that is not an audio payload and is in the download
\* directory when the program starts (a partial download of an earlier run)
LeftoverSizes == {1700}
\* size of a file that was created and never written to
EmptySizes == {0}
Leftover(size) == [path |-> <<0, "part">>, size |-> size]
\* run_optimized_cycle before its discovery step
NoDiscovery == [found |-> 0, failed |-> FALSE]
\* emergency_cleanup has not run
NoDownloaderCleanup == [cleaned_files |-> 0, errors |-> 0]
\* no direct call of a DatabaseManager method yet
NoStoreCall == [op |-> "none", video_id |-> 0, raised |-> FALSE]
\* no speakers_info was passed to db.save_transcription
NoSpeakers == [has_speaker_info |-> FALSE, reason |-> "none"]
\* transcribe_with_whisperx: speakers_info of a run with the diarization model
WhisperxSpeakers == [has_speaker_info |-> TRUE, reason |-> "none"]
\* the except branch of the provider block: speakers_info set after the fallback
FallbackSpeakers == [has_speaker_info |-> FALSE, reason |-> "whisperx_failed"]
\* the transform call in hand has written nothing
NoWrites == [files |-> FALSE, saved |-> FALSE, speakers_info |-> NoSpeakers]
\* no call of cleanup_temp_files yet
NoCleanup == [force |-> FALSE, cleaned_count |-> 0, errors |-> 0]

VARIABLES
    videos,          \* table videos: sequence of rows
    transcriptions,  \* table transcriptions: sequence of rows
    disk,            \* files under config.download_path, oldest first
    pc,              \* position of the worker
    mode,            \* entry point being executed
    pending_videos,  \* items of the batch not yet processed (in-memory objects)
    video,           \* the in-memory Video object handed to the stages
    result,          \* outcome of download_and_process_immediately
    opsLeft,         \* entry-point calls still allowed
    results,         \* download_videos_batch_optimized: the list results
    summary,         \* the counts of the batch report
    size_info,       \* download_video_optimized: estimated_mb of the item in hand
    calls,           \* the provider calls of the transform call in hand
    written,         \* what the transform call in hand has persisted so far:
                     \* the artifact files, the result row and its speakers_info
    last_event,      \* the latest of: check_storage_space called ("check"), a
                     \* fetch started ("fetch"), a transform succeeded
                     \* ("transform"), in the entry point in execution
    new_videos,      \* run_optimized_cycle: what check_for_new_videos returned
    downloader_cleanup, \* emergency_storage_cleanup: what emergency_cleanup returned
    is_running,      \* orchestrator.is_running
    jobs,            \* number of jobs held by the schedule module
    tpc,             \* position of each background thread
    due,             \* jobs a thread still has to run in its run_pending()
    stopped,         \* stop_monitoring was called while the thread was past the
                     \* entry of start_monitoring and has not yet left it
    store_call,      \* the last call of a DatabaseManager method made directly
    cleanup_log      \* the last call of cleanup_temp_files in the entry point in
                     \* execution: force, cleaned_count, unlink errors logged

batchVars == <<results, summary>>
localVars == <<size_info, calls, written, last_event>>
reportVars == <<new_videos, downloader_cleanup>>
monVars == <<is_running, jobs, tpc, due, stopped>>
storeVars == <<store_call>>

vars == <<videos, transcriptions, disk, pc, mode, pending_videos, video, result, opsLeft,
          results, summary, size_info, calls, written, last_event, cleanup_log, new_videos, downloader_cleanup,
          is_running, jobs, tpc, due, stopped, store_call>>

\* ------------------------------------------------------------ Item Store
RECURSIVE FirstRowFrom(_, _, _)
FirstRowFrom(tbl, vid, i) ==
    IF i > Len(tbl) THEN 0
    ELSE IF tbl[i].video_id = vid THEN i
    ELSE FirstRowFrom(tbl, vid, i + 1)

\* session.query(Video).filter(Video.video_id == video_id).first()
FirstRow(tbl, vid) == FirstRowFrom(tbl, vid, 1)

NewVideo(vid) ==
    [video_id |-> vid, status |-> "pending", download_path |-> NoPath,
     transcription_path |-> "", error_message |-> "", retry_count |-> 0]

\* add_video without the lookup of an existing row
add_video_NoLookup(tbl, vid) == Append(tbl, NewVideo(vid))

add_video(tbl, vid) ==
    IF FirstRow(tbl, vid) # 0 THEN tbl ELSE Append(tbl, NewVideo(vid))

\* the object add_video returns, as the caller holds it in memory
add_video_ret(tbl, vid) ==
    LET t == add_video(tbl, vid)
        r == t[FirstRow(t, vid)]
    IN [video_id |-> r.video_id, download_path |-> r.download_path]

\* update_video_status that records the error without counting the retry
update_video_status_NoRetry(tbl, vid, status, error_message, download_path, transcription_path) ==
    LET i == FirstRow(tbl, vid) IN
    IF i = 0 THEN tbl
    ELSE [tbl EXCEPT ![i] =
            [video_id |-> @.video_id,
             status |-> status,
             error_message |-> IF error_message # "" THEN error_message ELSE @.error_message,
             retry_count |-> @.retry_count,
             download_path |-> IF download_path # NoPath THEN download_path ELSE @.download_path,
             transcription_path |-> IF transcription_path # "" THEN transcription_path
                                    ELSE @.transcription_path]]

\* update_video_status that counts a retry on every update
update_video_status_RetryAlways(tbl, vid, status, error_message, download_path, transcription_path) ==
    LET i == FirstRow(tbl, vid) IN
    IF i = 0 THEN tbl
    ELSE [tbl EXCEPT ![i] =
            [video_id |-> @.video_id,
             status |-> status,
             error_message |-> IF error_message # "" THEN error_message ELSE @.error_message,
             retry_count |-> @.retry_count + 1,
             download_path |-> IF download_path # NoPath THEN download_path ELSE @.download_path,
             transcription_path |-> IF transcription_path # "" THEN transcription_path
                                    ELSE @.transcription_path]]

update_video_status(tbl, vid, status, error_message, download_path, transcription_path) ==
    LET i == FirstRow(tbl, vid) IN
    IF i = 0 THEN tbl
    ELSE [tbl EXCEPT ![i] =
            [video_id |-> @.video_id,
             status |-> status,
             error_message |-> IF error_message # "" THEN error_message ELSE @.error_message,
             retry_count |-> IF error_message # "" THEN @.retry_count + 1 ELSE @.retry_count,
             download_path |-> IF download_path # NoPath THEN download_path ELSE @.download_path,
             transcription_path |-> IF transcription_path # "" THEN transcription_path
                                    ELSE @.transcription_path]]

\* get_pending_videos whose filter also lets failed rows through
RECURSIVE get_pending_videos_AlsoFailed(_)
get_pending_videos_AlsoFailed(tbl) ==
    IF tbl = <<>> THEN <<>>
    ELSE LET h == Head(tbl)
             rest == get_pending_videos_AlsoFailed(Tail(tbl))
         IN IF h.status \in {"pending", "failed"}
            THEN <<[video_id |-> h.video_id, download_path |-> h.download_path]>> \o rest
            ELSE rest

RECURSIVE SelectPending(_)
SelectPending(tbl) ==
    IF tbl = <<>> THEN <<>>
    ELSE LET h == Head(tbl)
             rest == SelectPending(Tail(tbl))
         IN IF h.status = "pending"
            THEN <<[video_id |-> h.video_id, download_path |-> h.download_path]>> \o rest
            ELSE rest

get_pending_videos(tbl) == SelectPending(tbl)

\* save_transcription whose row is never committed
save_transcription_NoCommit(tbl, vid) == tbl

save_transcription(tbl, vid) == Append(tbl, [video_id |-> vid])

\* ------------------------------------------------- temporary storage
Exists(d, p) == \E i \in 1..Len(d) : d[i].path = p

RECURSIVE Remove(_, _)
Remove(d, p) ==
    IF d = <<>> THEN <<>>
    ELSE IF Head(d).path = p THEN Tail(d)
    ELSE <<Head(d)>> \o Remove(Tail(d), p)

RECURSIVE TotalSize(_)
TotalSize(d) == IF d = <<>> THEN 0 ELSE Head(d).size + TotalSize(Tail(d))

check_storage_space(d) ==
    [total_size_mb |-> TotalSize(d),
     space_available |-> TotalSize(d) < MaxTempStorageMB,
     cleanup_needed |-> TotalSize(d) * 10 > MaxTempStorageMB * 8]

\* the audio files listed newest first
RECURSIVE AudioPaths_NewestFirst(_)
AudioPaths_NewestFirst(d) ==
    IF d = <<>> THEN <<>>
    ELSE IF Head(d).path[2] \in AudioExts
         THEN AudioPaths_NewestFirst(Tail(d)) \o <<Head(d).path>>
         ELSE AudioPaths_NewestFirst(Tail(d))

\* cleanup_temp_files: audio_files, sorted by st_mtime (disk is oldest first)
RECURSIVE AudioPaths(_)
AudioPaths(d) ==
    IF d = <<>> THEN <<>>
    ELSE IF Head(d).path[2] \in AudioExts
         THEN <<Head(d).path>> \o AudioPaths(Tail(d))
         ELSE AudioPaths(Tail(d))

\* the deletion loop without its break
EnoughFreed_Never(d) == FALSE

\* cleanup_temp_files: "if not current_storage['cleanup_needed']: break"
EnoughFreed(d) == ~check_storage_space(d).cleanup_needed

\* the deletion loop of cleanup_temp_files; fails = the paths whose unlink raises
RECURSIVE CleanLoop(_, _, _)
CleanLoop(d, files, fails) ==
    IF files = <<>> THEN d
    ELSE IF Head(files) \in fails \/ ~Exists(d, Head(files))
         THEN CleanLoop(d, Tail(files), fails)
         ELSE LET d2 == Remove(d, Head(files)) IN
              IF EnoughFreed(d2) THEN d2
              ELSE CleanLoop(d2, Tail(files), fails)

\* the unlink errors the deletion loop runs into (one warning each)
RECURSIVE CleanErrors(_, _, _)
CleanErrors(d, files, fails) ==
    IF files = <<>> THEN 0
    ELSE IF Head(files) \in fails \/ ~Exists(d, Head(files))
         THEN 1 + CleanErrors(d, Tail(files), fails)
         ELSE LET d2 == Remove(d, Head(files)) IN
              IF EnoughFreed(d2) THEN 0
              ELSE CleanErrors(d2, Tail(files), fails)

cleanup_temp_files(d, force, fails) ==
    IF ~force /\ ~check_storage_space(d).cleanup_needed THEN d
    ELSE CleanLoop(d, AudioPaths(d), fails)

AudioPathSet(d) == {d[i].path : i \in {j \in 1..Len(d) : d[j].path[2] \in AudioExts}}

\* the callers' "if cleanup_needed: cleanup_temp_files()"
CleanupIfNeeded(d, fails) ==
    IF check_storage_space(d).cleanup_needed THEN cleanup_temp_files(d, FALSE, fails) ELSE d

\* cleaned_count and the warnings of one call of cleanup_temp_files
cleanup_temp_files_log(d, force, fails) ==
    IF ~force /\ ~check_storage_space(d).cleanup_needed
    THEN [force |-> force, cleaned_count |-> 0, errors |-> 0]
    ELSE [force |-> force,
          cleaned_count |-> Len(d) - Len(CleanLoop(d, AudioPaths(d), fails)),
          errors |-> CleanErrors(d, AudioPaths(d), fails)]

\* the log after the callers' "if cleanup_needed: cleanup_temp_files()"
LogIfNeeded(log, d, fails) ==
    IF check_storage_space(d).cleanup_needed
    THEN cleanup_temp_files_log(d, FALSE, fails) ELSE log

PathSet(d) == {d[i].path : i \in 1..Len(d)}

\* an emergency cleanup that only evicts down to the threshold
emergency_cleanup_ToThreshold(d, fails) == cleanup_temp_files(d, FALSE, fails)

\* emergency_cleanup: unlink every file; fails = the paths whose unlink raises
RECURSIVE emergency_cleanup(_, _)
emergency_cleanup(d, fails) ==
    IF d = <<>> THEN <<>>
    ELSE IF Head(d).path \in fails
         THEN <<Head(d)>> \o emergency_cleanup(Tail(d), fails)
         ELSE emergency_cleanup(Tail(d), fails)

\* yt-dlp writes output_path.<ext>; an existing file of that name is kept
WriteFile(d, p, size) ==
    IF Exists(d, p) THEN d ELSE Append(d, [path |-> p, size |-> size])

RECURSIVE FindFrom(_, _, _)
FindFrom(d, vid, i) ==
    IF i > Len(SearchExts) THEN NoPath
    ELSE IF Exists(d, <<vid, SearchExts[i]>>) THEN <<vid, SearchExts[i]>>
    ELSE FindFrom(d, vid, i + 1)

\* "Find the actual downloaded file"
FindDownloaded(d, vid) == FindFrom(d, vid, 1)

\* ------------------------------------------------------------------ Init
Init ==
    /\ videos = <<>>
    /\ transcriptions = <<>>
    /\ disk = <<>>
    /\ pc = "idle"
    /\ mode = "none"
    /\ pending_videos = <<>>
    /\ video = NoVideo
    /\ result = "none"
    /\ opsLeft = MaxOps
    /\ results = <<>>
    /\ summary = NoSummary
    /\ size_info = NoEstimate
    /\ calls = <<>>
    /\ written = NoWrites
    /\ last_event = "none"
    /\ cleanup_log = NoCleanup
    /\ new_videos = NoDiscovery
    /\ downloader_cleanup = NoDownloaderCleanup
    /\ is_running = FALSE
    /\ jobs = 0
    /\ tpc = [t \in Threads |-> "free"]
    /\ due = [t \in Threads |-> 0]
    /\ stopped = [t \in Threads |-> FALSE]
    /\ store_call = NoStoreCall

\* the state after construction when an earlier run has left a partial
\* download in the download directory
InitLeftover ==
    /\ videos = <<>>
    /\ transcriptions = <<>>
    /\ disk \in {<<Leftover(size)>> : size \in LeftoverSizes}
    /\ pc = "idle"
    /\ mode = "none"
    /\ pending_videos = <<>>
    /\ video = NoVideo
    /\ result = "none"
    /\ opsLeft = MaxOps
    /\ results = <<>>
    /\ summary = NoSummary
    /\ size_info = NoEstimate
    /\ calls = <<>>
    /\ written = NoWrites
    /\ last_event = "none"
    /\ cleanup_log = NoCleanup
    /\ new_videos = NoDiscovery
    /\ downloader_cleanup = NoDownloaderCleanup
    /\ is_running = FALSE
    /\ jobs = 0
    /\ tpc = [t \in Threads |-> "free"]
    /\ due = [t \in Threads |-> 0]
    /\ stopped = [t \in Threads |-> FALSE]
    /\ store_call = NoStoreCall

\* engine settings (optimized_transcription_engine.py:30-31)
immediate_cleanup == TRUE
keep_failed_files == FALSE

\* ------------------------------------------------------------- discovery
\* check_all_channels / check_channel_for_new_videos over the feed items
RECURSIVE DiscoverFrom(_, _, _)
DiscoverFrom(tbl, feed, i) ==
    IF i > MaxVideos THEN tbl
    ELSE IF i \in feed /\ FirstRow(tbl, i) = 0
         THEN DiscoverFrom(add_video(tbl, i), feed, i + 1)
         ELSE DiscoverFrom(tbl, feed, i + 1)

check_all_channels(tbl, feed) == DiscoverFrom(tbl, feed, 1)

\* check_for_new_videos without its try/except: the exception leaves it
check_for_new_videos_NoExcept(tbl, feed, raised) ==
    [videos |-> check_all_channels(tbl, feed),
     new_videos |-> [found |-> IF raised THEN 0
                               ELSE Len(check_all_channels(tbl, feed)) - Len(tbl),
                     failed |-> raised],
     raised |-> raised]

\* check_for_new_videos: raised = the discovery raises (after the rows of
\* feed were added); the except branch returns [] and nothing is raised
check_for_new_videos(tbl, feed, raised) ==
    [videos |-> check_all_channels(tbl, feed),
     new_videos |-> [found |-> IF raised THEN 0
                               ELSE Len(check_all_channels(tbl, feed)) - Len(tbl),
                     failed |-> raised],
     raised |-> FALSE]

\* ------------------------------------------------------- stage operators
\* download_video_optimized with the size check removed
TooLarge_Never(estimated_mb) == FALSE

\* download_video_optimized: if estimated_mb > self.max_file_size_mb
TooLarge(estimated_mb) == estimated_mb > MaxFileSizeMB

\* the provider block without the except branch: no fallback
RunProviders_NoFallback(primary_ok, fallback_ok) ==
    [calls |-> <<[provider |-> "whisperx", raised |-> ~primary_ok]>>,
     speakers_info |-> WhisperxSpeakers,
     raised |-> ~primary_ok]

\* transcribe_with_whisperx, and transcribe_with_whisper in the except
\* branch; raised = the exception leaves the block
RunProviders(primary_ok, fallback_ok) ==
    IF primary_ok
    THEN [calls |-> <<[provider |-> "whisperx", raised |-> FALSE]>>,
          speakers_info |-> WhisperxSpeakers,
          raised |-> FALSE]
    ELSE [calls |-> <<[provider |-> "whisperx", raised |-> TRUE],
                      [provider |-> "whisper", raised |-> ~fallback_ok]>>,
          speakers_info |-> FallbackSpeakers,
          raised |-> ~fallback_ok]

\* the persist steps whose exceptions are swallowed
Persist_NoRaise(provided, files_ok, save_ok) ==
    [files |-> provided /\ files_ok,
     saved |-> provided /\ files_ok /\ save_ok,
     raised |-> ~provided]

\* transcribe_with_immediate_cleanup after the providers: provided = a
\* provider returned; save_transcription_files, then db.save_transcription;
\* an exception of either leaves the try block (raised)
Persist(provided, files_ok, save_ok) ==
    [files |-> provided /\ files_ok,
     saved |-> provided /\ files_ok /\ save_ok,
     raised |-> ~provided \/ ~files_ok \/ ~save_ok]

\* outcomes <<files_ok, save_ok>> of the two persist steps
WritesOk == {<<TRUE, TRUE>>}
WritesFail == {<<FALSE, TRUE>>, <<TRUE, FALSE>>}

\* ------------------------------------------------------------------ batch
\* the batch loop counting one outcome without the failed += 1
CountOutcome_SuccessOnly(sm, success) ==
    [sm EXCEPT !.successful = IF success THEN @ + 1 ELSE @]

\* download_videos_batch_optimized: successful += 1 / failed += 1
CountOutcome(sm, success) ==
    [sm EXCEPT !.successful = IF success THEN @ + 1 ELSE @,
               !.failed = IF success THEN @ ELSE @ + 1]

\* ------------------------------------------------------------ entry points
Finish ==
    /\ pc' = "idle"
    /\ mode' = "none"
    /\ video' = NoVideo
    /\ result' = "none"
    /\ pending_videos' = <<>>
    /\ results' = <<>>
    /\ summary' = NoSummary
    /\ size_info' = NoEstimate
    /\ calls' = <<>>
    /\ written' = NoWrites
    /\ last_event' = "none"
    /\ cleanup_log' = NoCleanup
    /\ new_videos' = NoDiscovery
    /\ downloader_cleanup' = NoDownloaderCleanup

\* run_optimized_cycle is called
StartCycle ==
    /\ pc = "idle"
    /\ opsLeft > 0
    /\ opsLeft' = opsLeft - 1
    /\ mode' = "cycle"
    /\ pc' = "check_for_new_videos"
    /\ UNCHANGED <<videos, transcriptions, disk, pending_videos, video, result, batchVars, localVars,
                   cleanup_log>>
    /\ UNCHANGED <<reportVars, monVars, storeVars>>

\* process_pending_videos_optimized is called directly
StartProcessPending ==
    /\ pc = "idle"
    /\ opsLeft > 0
    /\ opsLeft' = opsLeft - 1
    /\ mode' = "pending"
    /\ pc' = "process_pending"
    /\ UNCHANGED <<videos, transcriptions, disk, pending_videos, video, result, batchVars, localVars,
                   cleanup_log>>
    /\ UNCHANGED <<reportVars, monVars, storeVars>>

\* process_single_video_optimized is called for the video with id vid
StartSingle ==
    /\ pc = "idle"
    /\ opsLeft > 0
    /\ \E vid \in Ids :
         video' = [video_id |-> vid, download_path |-> NoPath]
    /\ opsLeft' = opsLeft - 1
    /\ mode' = "single"
    /\ pc' = "single_add"
    /\ UNCHANGED <<videos, transcriptions, disk, pending_videos, result, batchVars, localVars,
                   cleanup_log>>
    /\ UNCHANGED <<reportVars, monVars, storeVars>>

\* process_single_video_optimized: db.add_video(...)
SingleAdd ==
    /\ pc = "single_add"
    /\ videos' = add_video(videos, video.video_id)
    /\ video' = add_video_ret(videos, video.video_id)
    /\ pc' = "download_start"
    /\ UNCHANGED <<transcriptions, disk, mode, pending_videos, result, opsLeft, batchVars, localVars, cleanup_log>>
    /\ UNCHANGED <<reportVars, monVars, storeVars>>

\* run_optimized_cycle step 1: check_for_new_videos; an exception that
\* leaves it ends the cycle in the except branch of run_optimized_cycle
CheckForNewVideos ==
    /\ pc = "check_for_new_videos"
    /\ \E feed \in SUBSET Ids, raised \in BOOLEAN :
         LET r == check_for_new_videos(videos, feed, raised) IN
         /\ videos' = r.videos
         /\ IF r.raised
            THEN /\ pc' = "idle"
                 /\ mode' = "none"
                 /\ new_videos' = NoDiscovery
            ELSE /\ pc' = "process_pending"
                 /\ mode' = mode
                 /\ new_videos' = r.new_videos
    /\ UNCHANGED <<transcriptions, disk, pending_videos, video, result, opsLeft, batchVars, localVars,
                   cleanup_log, downloader_cleanup>>
    /\ UNCHANGED <<monVars, storeVars>>

\* process_pending_videos_optimized up to the call of the batch
ProcessPending ==
    /\ pc = "process_pending"
    /\ IF get_pending_videos(videos) = <<>>
       THEN /\ pc' = "batch_done"
            /\ UNCHANGED <<disk, pending_videos, cleanup_log, last_event>>
       ELSE /\ \E fails \in SUBSET AudioPathSet(disk) :
                 /\ disk' = CleanupIfNeeded(disk, fails)
                 /\ cleanup_log' = LogIfNeeded(cleanup_log, disk, fails)
            /\ last_event' = "check"
            /\ pending_videos' = get_pending_videos(videos)
            /\ pc' = "batch_next"
    /\ results' = <<>>
    /\ summary' = [NoSummary EXCEPT !.total_videos = Len(get_pending_videos(videos))]
    /\ UNCHANGED <<videos, transcriptions, mode, video, result, opsLeft, size_info, calls, written>>
    /\ UNCHANGED <<reportVars, monVars, storeVars>>

\* download_videos_batch_optimized: the loop head
BatchNext ==
    /\ pc = "batch_next"
    /\ IF pending_videos = <<>>
       THEN /\ pc' = "batch_done"
            /\ video' = NoVideo
            /\ UNCHANGED pending_videos
       ELSE /\ video' = Head(pending_videos)
            /\ pending_videos' = Tail(pending_videos)
            /\ pc' = "download_start"
    /\ result' = "none"
    /\ UNCHANGED <<videos, transcriptions, disk, mode, opsLeft, batchVars, localVars, cleanup_log>>
    /\ UNCHANGED <<reportVars, monVars, storeVars>>

\* process_pending_videos_optimized returns its report (final_result)
BatchDone ==
    /\ pc = "batch_done"
    /\ IF mode = "cycle"
       THEN /\ pc' = "final_cleanup"
            /\ UNCHANGED <<mode, video, result, pending_videos, batchVars, localVars,
                           cleanup_log, reportVars>>
       ELSE Finish
    /\ UNCHANGED <<videos, transcriptions, disk, opsLeft>>
    /\ UNCHANGED <<monVars, storeVars>>

\* run_optimized_cycle step 3: final cleanup
FinalCleanup ==
    /\ pc = "final_cleanup"
    /\ \E fails \in SUBSET AudioPathSet(disk) :
         disk' = CleanupIfNeeded(disk, fails)
    /\ Finish
    /\ UNCHANGED <<videos, transcriptions, opsLeft>>
    /\ UNCHANGED <<monVars, storeVars>>

\* ------------------------------------------------------------ fetch stage
\* download_video_optimized: db.update_video_status(video_id, 'downloading')
DownloadStart ==
    /\ pc = "download_start"
    /\ videos' = update_video_status(videos, video.video_id, "downloading", "", NoPath, "")
    /\ pc' = "download_run"
    /\ last_event' = "fetch"
    /\ UNCHANGED <<transcriptions, disk, mode, pending_videos, video, result, opsLeft, batchVars,
                   size_info, calls, written, cleanup_log>>
    /\ UNCHANGED <<reportVars, monVars, storeVars>>

\* download_video_optimized after the status update: estimate, download,
\* search for the file, final status.  known = the estimate is available,
\* out = what yt-dlp does ("nofile": error ignored, "raise": exception).
DownloadRunWith(sizes) ==
    /\ \E known \in BOOLEAN, size \in sizes, out \in DlExts \cup {"nofile", "raise"} :
         LET vid == video.video_id
             d2 == IF out \in DlExts THEN WriteFile(disk, <<vid, out>>, size) ELSE disk
             found == FindDownloaded(d2, vid)
             estimated_mb == IF known THEN size ELSE NoEstimate
         IN /\ size_info' = estimated_mb
            /\ IF TooLarge(estimated_mb)
               THEN /\ videos' = update_video_status(videos, vid, "failed", "too_large", NoPath, "")
                    /\ disk' = disk
                    /\ result' = "failure"
                    /\ pc' = "dpi_return"
               ELSE IF out = "raise" \/ found = NoPath
               THEN /\ videos' = update_video_status(videos, vid, "failed", "download_failed", NoPath, "")
                    /\ disk' = IF out = "raise" THEN disk ELSE d2
                    /\ result' = "failure"
                    /\ pc' = "dpi_return"
               ELSE /\ videos' = update_video_status(videos, vid, "downloaded", "", found, "")
                    /\ disk' = d2
                    /\ result' = result
                    /\ pc' = "transcribe"
    /\ UNCHANGED <<transcriptions, mode, pending_videos, video, opsLeft, batchVars, calls, written, last_event, cleanup_log>>
    /\ UNCHANGED <<reportVars, monVars, storeVars>>

\* the download writes a file of one of the usual sizes
DownloadRun ==
    /\ pc = "download_run"
    /\ DownloadRunWith(Sizes)

\* the download leaves an empty file (the stream ended with no data)
DownloadRunEmpty ==
    /\ pc = "download_run"
    /\ DownloadRunWith(EmptySizes)

\* -------------------------------------------------------- transform stage
\* transcribe_with_immediate_cleanup up to the provider call
Transcribe ==
    /\ pc = "transcribe"
    /\ LET audio_path == video.download_path IN
       IF audio_path = NoPath \/ ~Exists(disk, audio_path)
       THEN /\ result' = "failure"
            /\ pc' = "dpi_return"
            /\ UNCHANGED <<videos, disk, cleanup_log, last_event>>
       ELSE /\ videos' = update_video_status(videos, video.video_id, "transcribing", "", NoPath, "")
            /\ \E fails \in SUBSET AudioPathSet(disk) :
                 /\ disk' = CleanupIfNeeded(disk, fails)
                 /\ cleanup_log' = LogIfNeeded(cleanup_log, disk, fails)
            /\ last_event' = "check"
            /\ pc' = "transcribe_run"
            /\ UNCHANGED result
    /\ size_info' = NoEstimate
    /\ UNCHANGED <<transcriptions, mode, pending_videos, video, opsLeft, batchVars, calls, written>>
    /\ UNCHANGED <<reportVars, monVars, storeVars>>

\* providers, save_transcription_files and db.save_transcription; on an
\* exception the except branch (cleanup of the failed file, status failed).
\* A provider can succeed only if the audio file is still there.
TranscribeRunWith(writes) ==
    /\ \E primary_ok \in BOOLEAN, fallback_ok \in BOOLEAN, unlinkOk \in BOOLEAN, w \in writes :
         LET audio_path == video.download_path
             run == RunProviders(primary_ok /\ Exists(disk, audio_path),
                                 fallback_ok /\ Exists(disk, audio_path))
             persist == Persist(~run.raised, w[1], w[2])
         IN /\ calls' = run.calls
            /\ written' = [files |-> persist.files, saved |-> persist.saved,
                           speakers_info |-> IF persist.saved THEN run.speakers_info
                                             ELSE NoSpeakers]
            /\ transcriptions' = IF persist.saved
                                 THEN save_transcription(transcriptions, video.video_id)
                                 ELSE transcriptions
            /\ IF ~persist.raised
               THEN /\ pc' = "mark_completed"
                    /\ last_event' = "transform"
                    /\ UNCHANGED <<videos, disk, result>>
               ELSE /\ disk' = IF ~keep_failed_files /\ Exists(disk, audio_path) /\ unlinkOk
                               THEN Remove(disk, audio_path) ELSE disk
                    /\ videos' = update_video_status(videos, video.video_id, "failed",
                                                     "transcription_failed", NoPath, "")
                    /\ result' = "failure"
                    /\ pc' = "dpi_return"
                    /\ UNCHANGED last_event
    /\ UNCHANGED <<mode, pending_videos, video, opsLeft, batchVars, size_info, cleanup_log>>
    /\ UNCHANGED <<reportVars, monVars, storeVars>>

\* save_transcription_files and db.save_transcription both succeed
TranscribeRun ==
    /\ pc = "transcribe_run"
    /\ TranscribeRunWith(WritesOk)

\* save_transcription_files or db.save_transcription raises
TranscribeRunWriteFail ==
    /\ pc = "transcribe_run"
    /\ TranscribeRunWith(WritesFail)

\* db.update_video_status(video_id, 'completed', transcription_path=...)
MarkCompleted ==
    /\ pc = "mark_completed"
    /\ videos' = update_video_status(videos, video.video_id, "completed", "", NoPath, "set")
    /\ pc' = "immediate_cleanup"
    /\ UNCHANGED <<transcriptions, disk, mode, pending_videos, video, result, opsLeft, batchVars, localVars, cleanup_log>>
    /\ UNCHANGED <<reportVars, monVars, storeVars>>

\* the IMMEDIATE CLEANUP block and the return of the transcription
ImmediateCleanup ==
    /\ pc = "immediate_cleanup"
    /\ \E unlinkOk \in BOOLEAN :
         LET audio_path == video.download_path IN
         IF immediate_cleanup /\ Exists(disk, audio_path) /\ unlinkOk
         THEN /\ disk' = Remove(disk, audio_path)
              /\ videos' = update_video_status(videos, video.video_id, "completed", "", NoPath, "")
         ELSE UNCHANGED <<videos, disk>>
    /\ result' = "success"
    /\ pc' = "dpi_return"
    /\ UNCHANGED <<transcriptions, mode, pending_videos, video, opsLeft, batchVars, localVars, cleanup_log>>
    /\ UNCHANGED <<reportVars, monVars, storeVars>>

\* download_and_process_immediately returns its outcome to the caller
Return ==
    /\ pc = "dpi_return"
    /\ IF mode = "single"
       THEN Finish
       ELSE /\ results' = Append(results, [video_id |-> video.video_id,
                                           success |-> result = "success"])
            /\ summary' = CountOutcome(summary, result = "success")
            /\ size_info' = NoEstimate
            /\ calls' = <<>>
            /\ written' = NoWrites
            /\ pc' = "batch_next"
            /\ UNCHANGED last_event
            /\ UNCHANGED <<mode, video, result, pending_videos, cleanup_log, reportVars>>
    /\ UNCHANGED <<videos, transcriptions, disk, opsLeft>>
    /\ UNCHANGED <<monVars, storeVars>>

\* ------------------------------------------------------- storage cleanup
\* POST /storage/cleanup is called with the parameter force
StartStorageCleanup ==
    /\ pc = "idle"
    /\ opsLeft > 0
    /\ opsLeft' = opsLeft - 1
    /\ \E force \in BOOLEAN :
         /\ mode' = IF force THEN "emergency" ELSE "cleanup"
         /\ pc' = IF force THEN "emergency_cleanup" ELSE "storage_cleanup"
    /\ UNCHANGED <<videos, transcriptions, disk, pending_videos, video, result, batchVars, localVars,
                   cleanup_log>>
    /\ UNCHANGED <<reportVars, monVars, storeVars>>

\* cleanup_storage without force: cleanup_temp_files()
StorageCleanup ==
    /\ pc = "storage_cleanup"
    /\ \E fails \in SUBSET AudioPathSet(disk) :
         disk' = cleanup_temp_files(disk, FALSE, fails)
    /\ Finish
    /\ UNCHANGED <<videos, transcriptions, opsLeft>>
    /\ UNCHANGED <<monVars, storeVars>>

\* emergency_storage_cleanup: video_downloader.emergency_cleanup()
EmergencyCleanup ==
    /\ pc = "emergency_cleanup"
    /\ \E fails \in SUBSET PathSet(disk) :
         /\ disk' = emergency_cleanup(disk, fails)
         /\ downloader_cleanup' = [cleaned_files |-> Len(disk) - Len(disk'),
                                   errors |-> Cardinality(fails)]
    /\ pc' = "force_cleanup"
    /\ UNCHANGED <<videos, transcriptions, mode, pending_videos, video, result, opsLeft,
                   batchVars, localVars, cleanup_log, new_videos>>
    /\ UNCHANGED <<monVars, storeVars>>

\* emergency_storage_cleanup: transcription_engine.cleanup_temp_files(force=True)
ForceCleanup ==
    /\ pc = "force_cleanup"
    /\ \E fails \in SUBSET AudioPathSet(disk) :
         /\ disk' = cleanup_temp_files(disk, TRUE, fails)
         /\ cleanup_log' = cleanup_temp_files_log(disk, TRUE, fails)
    /\ pc' = "final_stats"
    /\ UNCHANGED <<videos, transcriptions, mode, pending_videos, video, result, opsLeft,
                   batchVars, localVars>>
    /\ UNCHANGED <<reportVars, monVars, storeVars>>

\* emergency_storage_cleanup: final_stats and the return
FinalStats ==
    /\ pc = "final_stats"
    /\ Finish
    /\ UNCHANGED <<videos, transcriptions, disk, opsLeft>>
    /\ UNCHANGED <<monVars, storeVars>>

Next ==
    \/ StartCycle
    \/ StartProcessPending
    \/ StartSingle
    \/ SingleAdd
    \/ CheckForNewVideos
    \/ ProcessPending
    \/ BatchNext
    \/ BatchDone
    \/ FinalCleanup
    \/ DownloadStart
    \/ DownloadRun
    \/ Transcribe
    \/ TranscribeRun
    \/ MarkCompleted
    \/ ImmediateCleanup
    \/ Return
    \/ StartStorageCleanup
    \/ StorageCleanup
    \/ EmergencyCleanup
    \/ ForceCleanup
    \/ FinalStats

Spec == Init /\ [][Next]_vars

\* the same program started on a download directory that is not empty
SpecLeftover == InitLeftover /\ [][Next]_vars

\* the same program when a download can also leave an empty file
NextEmptyFile ==
    \/ Next
    \/ DownloadRunEmpty

SpecEmptyFile == Init /\ [][NextEmptyFile]_vars

\* the same program when writing the artifact files or saving the result
\* can fail
NextWriteFail ==
    \/ Next
    \/ TranscribeRunWriteFail

SpecWriteFail == Init /\ [][NextWriteFail]_vars

\* ------------------------------------------------------ repeated cycles
\* start_monitoring: schedule.run_pending() starts the cycle of the job,
\* every interval, for as long as the loop runs
StartScheduledCycle ==
    /\ pc = "idle"
    /\ mode' = "cycle"
    /\ pc' = "check_for_new_videos"
    /\ UNCHANGED <<videos, transcriptions, disk, pending_videos, video, result, opsLeft, batchVars,
                   localVars, cleanup_log>>
    /\ UNCHANGED <<reportVars, monVars, storeVars>>

NextCycles ==
    \/ Next
    \/ StartScheduledCycle

\* cycles are started again and again and every started step is completed
SpecCyclesFair == Init /\ [][NextCycles]_vars /\ WF_vars(NextCycles)

\* ------------------------------------------------------- interruption
\* start_monitoring: KeyboardInterrupt is raised while schedule.run_pending()
\* is inside run_optimized_cycle.  It is not an Exception, so no handler of
\* the cycle or of the stages catches it; "except KeyboardInterrupt" of
\* start_monitoring does, after the cycle was abandoned where it stood.
KeyboardInterrupt ==
    /\ mode = "cycle"
    /\ pc # "idle"
    /\ Finish
    /\ UNCHANGED <<videos, transcriptions, disk, opsLeft>>
    /\ UNCHANGED <<monVars, storeVars>>

NextInterrupt ==
    \/ Next
    \/ KeyboardInterrupt

SpecInterrupt == Init /\ [][NextInterrupt]_vars

\* ------------------------------------------------------- continuous mode
\* The API hands start_monitoring and run_optimized_cycle to background
\* tasks, which run in threads of their own; stop_monitoring runs in the
\* request.  A thread at "sm_initial_cycle", "sm_job_cycle" or "rc_cycle"
\* is inside run_optimized_cycle, whose body is the steps
\* CheckForNewVideos .. FinalCleanup above.
specVars == <<videos, transcriptions, disk, pc, mode, pending_videos, video, result, opsLeft,
              results, summary, size_info, calls, written, last_event, cleanup_log, new_videos, downloader_cleanup,
              store_call>>

\* the positions of a thread between the scheduling of its job in
\* start_monitoring and the finally block
InMonitoring == {"sm_initial_cycle", "sm_set_running", "sm_loop", "sm_job_cycle"}

\* POST /monitoring/start: "if optimized_orchestrator.is_running: return",
\* else background_tasks.add_task(start_monitoring)
ApiStartMonitoring(t) ==
    /\ tpc[t] = "free"
    /\ ~is_running
    /\ tpc' = [tpc EXCEPT ![t] = "sm_entry"]
    /\ UNCHANGED <<is_running, jobs, due, stopped, specVars>>

\* start_monitoring: "if self.is_running: return"
SmEntry(t) ==
    /\ tpc[t] = "sm_entry"
    /\ tpc' = [tpc EXCEPT ![t] = IF is_running THEN "free" ELSE "sm_schedule"]
    /\ UNCHANGED <<is_running, jobs, due, stopped, specVars>>

\* start_monitoring: schedule.every(...).minutes.do(self.run_optimized_cycle)
\* and the call of the initial cycle
SmSchedule(t) ==
    /\ tpc[t] = "sm_schedule"
    /\ jobs < MaxJobs
    /\ jobs' = jobs + 1
    /\ tpc' = [tpc EXCEPT ![t] = "sm_initial_cycle"]
    /\ UNCHANGED <<is_running, due, stopped, specVars>>

\* start_monitoring: the initial cycle returns
SmInitialCycleEnd(t) ==
    /\ tpc[t] = "sm_initial_cycle"
    /\ tpc' = [tpc EXCEPT ![t] = "sm_set_running"]
    /\ UNCHANGED <<is_running, jobs, due, stopped, specVars>>

\* start_monitoring: self.is_running = True
SmSetRunning(t) ==
    /\ tpc[t] = "sm_set_running"
    /\ is_running' = TRUE
    /\ tpc' = [tpc EXCEPT ![t] = "sm_loop"]
    /\ UNCHANGED <<jobs, due, stopped, specVars>>

\* start_monitoring: "while self.is_running: schedule.run_pending()";
\* tick = the interval of the jobs has elapsed
SmLoop(t) ==
    /\ tpc[t] = "sm_loop"
    /\ IF ~is_running
       THEN /\ tpc' = [tpc EXCEPT ![t] = "sm_finally"]
            /\ UNCHANGED due
       ELSE \E tick \in BOOLEAN :
              IF tick /\ jobs > 0
              THEN /\ due' = [due EXCEPT ![t] = jobs]
                   /\ tpc' = [tpc EXCEPT ![t] = "sm_job_cycle"]
              ELSE UNCHANGED <<tpc, due>>
    /\ UNCHANGED <<is_running, jobs, stopped, specVars>>

\* run_pending: the cycle of one job returns; the next due job starts
SmJobCycleEnd(t) ==
    /\ tpc[t] = "sm_job_cycle"
    /\ due' = [due EXCEPT ![t] = @ - 1]
    /\ tpc' = [tpc EXCEPT ![t] = IF due[t] > 1 THEN "sm_job_cycle" ELSE "sm_loop"]
    /\ UNCHANGED <<is_running, jobs, stopped, specVars>>

\* start_monitoring: "finally: self.is_running = False"
SmFinally(t) ==
    /\ tpc[t] = "sm_finally"
    /\ is_running' = FALSE
    /\ tpc' = [tpc EXCEPT ![t] = "free"]
    /\ stopped' = [stopped EXCEPT ![t] = FALSE]
    /\ UNCHANGED <<jobs, due, specVars>>

\* POST /monitoring/cycle: background_tasks.add_task(run_optimized_cycle)
ApiRunCycle(t) ==
    /\ tpc[t] = "free"
    /\ tpc' = [tpc EXCEPT ![t] = "rc_cycle"]
    /\ UNCHANGED <<is_running, jobs, due, stopped, specVars>>

\* the cycle of POST /monitoring/cycle returns
RcCycleEnd(t) ==
    /\ tpc[t] = "rc_cycle"
    /\ tpc' = [tpc EXCEPT ![t] = "free"]
    /\ UNCHANGED <<is_running, jobs, due, stopped, specVars>>

\* POST /monitoring/stop: stop_monitoring
StopMonitoring ==
    /\ is_running' = FALSE
    /\ stopped' = [t \in Threads |-> stopped[t] \/ tpc[t] \in InMonitoring]
    /\ UNCHANGED <<jobs, tpc, due, specVars>>

NextMon ==
    \/ \E t \in Threads : ApiStartMonitoring(t)
    \/ \E t \in Threads : SmEntry(t)
    \/ \E t \in Threads : SmSchedule(t)
    \/ \E t \in Threads : SmInitialCycleEnd(t)
    \/ \E t \in Threads : SmSetRunning(t)
    \/ \E t \in Threads : SmLoop(t)
    \/ \E t \in Threads : SmJobCycleEnd(t)
    \/ \E t \in Threads : SmFinally(t)
    \/ \E t \in Threads : ApiRunCycle(t)
    \/ \E t \in Threads : RcCycleEnd(t)
    \/ StopMonitoring

SpecMon == Init /\ [][NextMon]_vars

\* a step of the thread t inside start_monitoring or run_optimized_cycle
ThreadStep(t) ==
    \/ SmEntry(t)
    \/ SmSchedule(t)
    \/ SmInitialCycleEnd(t)
    \/ SmSetRunning(t)
    \/ SmLoop(t)
    \/ SmJobCycleEnd(t)
    \/ SmFinally(t)
    \/ RcCycleEnd(t)

\* a thread that can take a step takes one (the interpreter schedules every
\* thread and a cycle returns); requests arrive or not
SpecMonFair == Init /\ [][NextMon]_vars /\ \A t \in Threads : WF_vars(ThreadStep(t))

\* ------------------------------------------------------------- Item Store
\* The methods of DatabaseManager called directly, with any arguments.
\* raised = an exception leaves the method.
StoreAddVideo ==
    /\ \E vid \in Ids :
         /\ videos' = add_video(videos, vid)
         /\ store_call' = [op |-> "add_video", video_id |-> vid, raised |-> FALSE]
    /\ UNCHANGED <<transcriptions, disk, pc, mode, pending_videos, video, result, opsLeft,
                   batchVars, localVars, cleanup_log, reportVars, monVars>>

StoreGetPendingVideos ==
    /\ pending_videos' = get_pending_videos(videos)
    /\ store_call' = [op |-> "get_pending_videos", video_id |-> 0, raised |-> FALSE]
    /\ UNCHANGED <<videos, transcriptions, disk, pc, mode, video, result, opsLeft,
                   batchVars, localVars, cleanup_log, reportVars, monVars>>

\* update_video_status: "if video:" skips an unknown id, nothing is raised
StoreUpdateVideoStatus ==
    /\ \E vid \in Ids, status \in Statuses, error_message \in {"", "error"},
          ext \in {"", "m4a"}, transcription_path \in {"", "set"} :
         LET download_path == IF ext = "" THEN NoPath ELSE <<vid, ext>> IN
         /\ IF error_message = "" \/ FirstRow(videos, vid) = 0
            THEN TRUE
            ELSE videos[FirstRow(videos, vid)].retry_count < MaxRetries
         /\ videos' = update_video_status(videos, vid, status, error_message,
                                          download_path, transcription_path)
         /\ store_call' = [op |-> "update_video_status", video_id |-> vid, raised |-> FALSE]
    /\ UNCHANGED <<transcriptions, disk, pc, mode, pending_videos, video, result, opsLeft,
                   batchVars, localVars, cleanup_log, reportVars, monVars>>

NextStore ==
    \/ StoreAddVideo
    \/ StoreGetPendingVideos
    \/ StoreUpdateVideoStatus

SpecStore == Init /\ [][NextStore]_vars

\* the threads that are inside run_optimized_cycle
ActiveCycles == {t \in Threads : tpc[t] \in {"sm_initial_cycle", "sm_job_cycle", "rc_cycle"}}

\* ---------------------------------------------------------------- helpers
Row(vid) == videos[FirstRow(videos, vid)]
Known(vid) == FirstRow(videos, vid) # 0
ResultsOf(vid) == {i \in 1..Len(transcriptions) : transcriptions[i].video_id = vid}
FilesOf(vid) == {i \in 1..Len(disk) : disk[i].path[1] = vid}
\* the ids of the items of the batch in execution
BatchIds ==
    {results[i].video_id : i \in 1..Len(results)}
        \cup {pending_videos[i].video_id : i \in 1..Len(pending_videos)}
        \cup ({video.video_id} \ {0})
Transient == {"downloading", "downloaded", "transcribing"}

TypeOK ==
    /\ pc \in {"idle", "check_for_new_videos", "process_pending", "batch_next",
               "batch_done", "final_cleanup", "single_add", "download_start", "download_run",
               "transcribe", "transcribe_run", "mark_completed",
               "immediate_cleanup", "dpi_return", "storage_cleanup",
               "emergency_cleanup", "force_cleanup", "final_stats"}
    /\ mode \in {"none", "cycle", "pending", "single", "cleanup", "emergency"}
    /\ result \in {"none", "success", "failure"}
    /\ opsLeft \in 0..MaxOps

\* ================================================================= claims

\* C1: at every point of a cycle (run_optimized_cycle or
\* process_pending_videos_optimized) the total size of the files in the
\* download directory is at most the ceiling max_temp_storage_gb.
C1_StorageWithinCeiling ==
    mode \in {"cycle", "pending"} => TotalSize(disk) <= MaxTempStorageMB

Edges ==
    {<<"pending", "downloading">>, <<"downloading", "downloaded">>,
     <<"downloaded", "transcribing">>, <<"transcribing", "completed">>,
     <<"downloading", "failed">>, <<"transcribing", "failed">>}

\* C2: every change of a stored status follows an edge of the state machine
\* Pending->Fetching->Fetched->Transforming->Completed, Fetching->Failed,
\* Transforming->Failed; nothing leaves Completed or Failed.
C2_StatusFollowsEdges ==
    [][\A i \in 1..Len(videos) :
          videos'[i].status # videos[i].status
            => <<videos[i].status, videos'[i].status>> \in Edges]_vars

\* C3: when download_and_process_immediately returns success, no payload
\* file of that item is left in the download directory.
C3_NoFileAfterSuccess ==
    (pc = "dpi_return" /\ result = "success") => FilesOf(video.video_id) = {}

\* C4: an item that is Completed once the transform stage has returned has
\* an empty stored download_path.
C4_CompletedHasNoPayloadPath ==
    \A i \in 1..Len(videos) :
        (/\ videos[i].status = "completed"
         /\ ~(pc = "immediate_cleanup" /\ video.video_id = videos[i].video_id))
            => videos[i].download_path = NoPath

\* C5: the videos table holds at most one row per video_id, and discovery or
\* add_video on an id that exists changes no field of the existing row and
\* hands back that row.
C5_AddVideoIdempotent ==
    /\ [](\A i, j \in 1..Len(videos) :
             videos[i].video_id = videos[j].video_id => i = j)
    /\ [][(pc \in {"single_add", "check_for_new_videos"})
            => /\ \A i \in 1..Len(videos) : videos'[i] = videos[i]
               /\ (pc = "single_add" /\ Known(video.video_id))
                    => /\ videos' = videos
                       /\ video'.video_id = video.video_id
                       /\ video'.download_path = Row(video.video_id).download_path]_vars

\* add_video has returned a row that already existed as Failed or Completed
C5_Witness ==
    /\ pc = "download_start"
    /\ mode = "single"
    /\ Known(video.video_id)
    /\ Row(video.video_id).status \in {"failed", "completed"}
    /\ Row(video.video_id).retry_count + Cardinality(ResultsOf(video.video_id)) > 0

\* C6: every item whose stored status is Completed has a stored
\* Transcription row with its video_id.
C6_CompletedHasResult ==
    \A i \in 1..Len(videos) :
        videos[i].status = "completed" => ResultsOf(videos[i].video_id) # {}

\* an item has been marked Completed by the transform stage
C6_Witness ==
    \E i \in 1..Len(videos) :
        videos[i].status = "completed" /\ pc = "immediate_cleanup"
            /\ video.video_id = videos[i].video_id

\* C7: a Transcription row exists only for an item whose stored status is
\* Completed.
C7_ResultOnlyIfCompleted ==
    \A t \in 1..Len(transcriptions) :
        /\ Known(transcriptions[t].video_id)
        /\ Row(transcriptions[t].video_id).status = "completed"

\* C8: each item owns at most one Transcription row.
C8_AtMostOneResult ==
    \A vid \in Ids : Cardinality(ResultsOf(vid)) <= 1

\* C9: every item whose stored status is Failed has retry_count >= 1 and a
\* recorded error message.
C9_FailedHasRetryAndError ==
    \A i \in 1..Len(videos) :
        videos[i].status = "failed"
            => videos[i].retry_count >= 1 /\ videos[i].error_message # ""

\* the fetch stage or the transform stage has just marked an item Failed
C9_Witness ==
    /\ pc = "dpi_return"
    /\ result = "failure"
    /\ Known(video.video_id)
    /\ Row(video.video_id).status = "failed"

\* C10: when download_and_process_immediately returns, the item is Completed
\* if the outcome is success and Failed if it is not.
C10_OutcomeIsTerminalState ==
    pc = "dpi_return"
        => Row(video.video_id).status =
              (IF result = "success" THEN "completed" ELSE "failed")

\* C11: the counts of a batch report satisfy total = successful + failed and
\* the list of outcomes has exactly one entry per item of the batch.
C11_CountsAddUp ==
    pc = "batch_done"
        => /\ summary.total_videos = summary.successful + summary.failed
           /\ Len(results) = summary.total_videos
           /\ \A i, j \in 1..Len(results) :
                 results[i].video_id = results[j].video_id => i = j

\* a batch of two items has returned and at least one failure was counted
C11_Witness ==
    /\ pc = "batch_done"
    /\ summary.total_videos = 2
    /\ summary.failed >= 1

\* C12: a failing item does not abort the batch: when the batch returns every
\* item has an outcome, and every item whose outcome is a failure is Failed.
C12_FailureIsolated ==
    pc = "batch_done"
        => /\ Len(results) = summary.total_videos
           /\ \A i \in 1..Len(results) :
                 ~results[i].success => Row(results[i].video_id).status = "failed"

\* C13: during a batch at most one item of the batch is in Fetching, Fetched
\* or Transforming.
C13_OneItemInFlight ==
    mode \in {"cycle", "pending"}
        => Cardinality({v \in BatchIds : Row(v).status \in Transient}) <= 1

\* C15: when the estimated size of the payload exceeds max_file_size_mb the
\* download step ends with the item Failed and an error recorded, writes no
\* file and hands the item back without entering the transform stage.
C15_TooLargeFailsFast ==
    [][(pc = "download_run" /\ size_info' > MaxFileSizeMB)
         => /\ videos'[FirstRow(videos', video.video_id)].status = "failed"
            /\ videos'[FirstRow(videos', video.video_id)].error_message = "too_large"
            /\ disk' = disk
            /\ transcriptions' = transcriptions
            /\ calls' = <<>>
            /\ result' = "failure"
            /\ pc' = "dpi_return"]_vars

\* an item whose estimate is above the per-item ceiling has been handed back
C15_Witness ==
    /\ pc = "dpi_return"
    /\ size_info > MaxFileSizeMB
    /\ Row(video.video_id).status = "failed"
    /\ FilesOf(video.video_id) = {}

\* C16: in one transform call Whisper is called if and only if WhisperX
\* raised, and at most once; when Whisper raises too the item becomes Failed
\* and no Transcription row is stored by the call.
C16_FallbackIffPrimaryFailed ==
    [][pc = "transcribe_run"
         => LET whisperx == {i \in 1..Len(calls') : calls'[i].provider = "whisperx"}
                whisper == {i \in 1..Len(calls') : calls'[i].provider = "whisper"}
            IN /\ whisperx = {1}
               /\ whisper # {} <=> calls'[1].raised
               /\ Cardinality(whisper) <= 1
               /\ (\E i \in whisper : calls'[i].raised)
                    => /\ videos'[FirstRow(videos', video.video_id)].status = "failed"
                       /\ transcriptions' = transcriptions
                       /\ result' = "failure"
                       /\ pc' = "dpi_return"]_vars

\* both providers have raised in one transform call
C16_Witness ==
    /\ pc = "dpi_return"
    /\ Len(calls) = 2
    /\ calls[1].raised
    /\ calls[2].raised
    /\ Row(video.video_id).status = "failed"

\* C17: when processing of an item returns a failure after the payload was
\* fetched (keep_failed_files is false), no payload file of the item is left
\* in the download directory.
C17_NoFileAfterFailure ==
    (/\ pc = "dpi_return"
     /\ result = "failure"
     /\ ~keep_failed_files
     /\ \/ Row(video.video_id).status = "downloaded"
        \/ /\ Row(video.video_id).status = "failed"
           /\ Row(video.video_id).error_message = "transcription_failed")
        => FilesOf(video.video_id) = {}

\* the files of disk that are no longer in disk'
Deleted == {i \in 1..Len(disk) : ~Exists(disk', disk[i].path)}

RECURSIVE SizeOfAll(_)
SizeOfAll(idx) ==
    IF idx = {} THEN 0
    ELSE LET i == CHOOSE j \in idx : TRUE IN disk[i].size + SizeOfAll(idx \ {i})

\* C18: a call of cleanup_temp_files with force=false (from
\* process_pending_videos_optimized, run_optimized_cycle, the transform stage
\* or POST /storage/cleanup) deletes a file only while the usage, counted
\* before that deletion in the oldest-first order, is above 80% of the
\* ceiling; it deletes nothing when the usage is at or below 80% at the call.
C18_NoDeletionBelowThreshold ==
    [][(pc \in {"process_pending", "final_cleanup", "transcribe", "storage_cleanup"})
         => (\A i \in Deleted :
               (TotalSize(disk) - SizeOfAll({j \in Deleted : j < i})) * 10
                   > MaxTempStorageMB * 8)]_vars

\* the call of the transform stage (the only call of cleanup_temp_files in
\* process_single_video_optimized) has just deleted a file and stopped before
\* an audio file that is still in the directory
C18_Witness ==
    /\ pc = "transcribe_run"
    /\ mode = "single"
    /\ ~cleanup_log.force
    /\ cleanup_log.cleaned_count >= 1
    /\ cleanup_log.errors = 0
    /\ AudioPathSet(disk) # {}
    /\ ~check_storage_space(disk).cleanup_needed

\* C19: when cleanup_temp_files(force=True) has returned without an unlink
\* error, the usage of the download directory is 0.
C19_ForceCleanupEmpties ==
    (pc = "final_stats" /\ cleanup_log.force /\ cleanup_log.errors = 0)
        => TotalSize(disk) = 0

\* C20: when the batch of process_pending_videos_optimized starts with at
\* least one pending item, the usage is at or below 80% of the ceiling.
C20_EvictedBeforeFirstFetch ==
    (/\ pc = "batch_next"
     /\ results = <<>>
     /\ pending_videos # <<>>
     /\ Len(pending_videos) = summary.total_videos)
        => ~check_storage_space(disk).cleanup_needed

\* C14: under any interleaving of start_monitoring, stop_monitoring and
\* run-cycle requests at most one execution of run_optimized_cycle is active.
C14_SingleWorker ==
    Cardinality(ActiveCycles) <= 1

\* C21: process_pending_videos_optimized does not start the batch while the
\* usage of the download directory is above the ceiling: when the eviction
\* before the batch could not bring the usage under max_temp_storage_gb, no
\* item is fetched.
C21_NoFetchOverQuota ==
    (/\ pc = "batch_next"
     /\ results = <<>>
     /\ pending_videos # <<>>
     /\ Len(pending_videos) = summary.total_videos)
        => TotalSize(disk) <= MaxTempStorageMB

\* C22: a failure of the discovery step does not end the cycle: the cycle
\* goes on to process_pending_videos_optimized with zero new items found,
\* hands every Pending item to the batch, and reaches its report with one
\* outcome per item.
C22_DiscoveryFailureNonFatal ==
    /\ [](new_videos.failed
            => /\ mode = "cycle"
               /\ new_videos.found = 0
               /\ pc = "final_cleanup" => Len(results) = summary.total_videos)
    /\ [][/\ (pc = "check_for_new_videos") => pc' = "process_pending"
          /\ (pc = "process_pending" /\ new_videos.failed)
               => /\ summary'.total_videos = Len(get_pending_videos(videos))
                  /\ get_pending_videos(videos) # <<>>
                       => /\ pending_videos' = get_pending_videos(videos)
                          /\ pc' = "batch_next"]_vars

\* a cycle whose discovery failed has processed a Pending item and has
\* reached its report
C22_Witness ==
    /\ pc = "final_cleanup"
    /\ new_videos.failed
    /\ summary.total_videos >= 1
    /\ Len(results) = summary.total_videos

\* C25: when emergency_storage_cleanup has run both of its cleanups without
\* an unlink error, the download directory holds no file, whatever the
\* states of the items.
C25_EmergencyWipes ==
    (/\ pc = "final_stats"
     /\ downloader_cleanup.errors = 0
     /\ cleanup_log.errors = 0)
        => disk = <<>>

\* an emergency cleanup has deleted the files of two items that are not in
\* a final state
C25_Witness ==
    /\ pc = "final_stats"
    /\ downloader_cleanup.errors = 0
    /\ downloader_cleanup.cleaned_files >= 2
    /\ \E i \in 1..Len(videos) : videos[i].status = "downloaded"
    /\ disk = <<>>

\* C28: when the fetch stage has succeeded (control is at the transform
\* stage), the path the transform stage reads from the in-memory item it
\* was handed equals the payload path stored for the item.
C28_TransformReadsStoredPath ==
    (pc = "transcribe") =>
        /\ Row(video.video_id).download_path # NoPath
        /\ video.download_path = Row(video.video_id).download_path

\* C29: the storage check that the transform stage runs after marking the
\* item transcribing and before the provider call never deletes the payload
\* file of the item in flight.
C29_OwnFileSurvivesEviction ==
    [][(pc = "transcribe" /\ Known(video.video_id)) =>
          LET own == Row(video.video_id).download_path IN
          (own # NoPath /\ Exists(disk, own)) => Exists(disk', own)]_vars

\* C27: a cycle or a direct run of the pending batch never takes a failed
\* item: every item of its snapshot and the item it works on were selected
\* as pending, and no step of it changes the row (status, retry count,
\* error message) of an item that is failed.
C27_FailedNeverRetried ==
    /\ [](mode \in {"cycle", "pending"} =>
             /\ \A j \in 1..Len(pending_videos) :
                    Row(pending_videos[j].video_id).status = "pending"
             /\ pc = "download_start" => Row(video.video_id).status = "pending")
    /\ [][(mode \in {"cycle", "pending"}) =>
             \A i \in 1..Len(videos) :
                videos[i].status = "failed" => videos'[i] = videos[i]]_vars

\* a second cycle is fetching an item while an item that failed in an
\* earlier cycle, with its retry count and error message, is in the table
C27_Witness ==
    /\ pc = "download_run"
    /\ mode = "cycle"
    /\ opsLeft <= MaxOps - 2
    /\ \E i \in 1..Len(videos) :
          /\ videos[i].status = "failed"
          /\ videos[i].retry_count = 1
          /\ videos[i].error_message # ""
          /\ videos[i].video_id # video.video_id

\* C30: the retry count counts the entries into failed: a step that takes a
\* row into failed adds exactly one to its retry count, and any other step
\* leaves the row's retry count and error message as they are.
C30_RetryCountsFailures ==
    [][\A i \in 1..Len(videos) :
          IF videos'[i].status = "failed" /\ videos[i].status # "failed"
          THEN videos'[i].retry_count = videos[i].retry_count + 1
          ELSE /\ videos'[i].retry_count = videos[i].retry_count
               /\ videos'[i].error_message = videos[i].error_message]_vars

\* an item that has entered failed twice has retry count 2
C30_Witness ==
    \E i \in 1..Len(videos) :
       /\ videos[i].status = "failed"
       /\ videos[i].retry_count = 2
       /\ pc = "dpi_return"
       /\ video.video_id = videos[i].video_id

\* C24: when continuous mode has been cancelled and no cycle is running any
\* more, no item is in downloading or transcribing.
C24_NoTransientAfterCancel ==
    (pc = "idle") =>
        \A i \in 1..Len(videos) : videos[i].status \notin {"downloading", "transcribing"}

\* C23: once stop_monitoring has been called while a thread is inside
\* start_monitoring (the initial cycle included), that thread eventually
\* leaves start_monitoring, with is_running false.
C23_StopEndsMonitoring ==
    \A t \in Threads : stopped[t] ~> (tpc[t] = "free" /\ ~is_running)

\* C26: update_video_status on an id that is not in the table raises
\* NotFound and leaves the table as it is.
C26_UnknownIdRaises ==
    [][(store_call'.op = "update_video_status" /\ FirstRow(videos, store_call'.video_id) = 0)
          => (store_call'.raised /\ videos' = videos)]_vars

\* C31: the fetch stage is started only for an item whose stored status is
\* pending: when download_video_optimized is about to set downloading, the
\* row of the item is pending, whatever the entry point.
C31_FetchOnlyFromPending ==
    (pc = "download_start") => Row(video.video_id).status = "pending"

\* C32: when the fetch stage has reported success (the row is downloaded
\* and control is at the transform stage), the recorded payload file is on
\* disk and is not empty.
C32_FetchedFileNonEmpty ==
    (pc = "transcribe") =>
        \E i \in 1..Len(disk) :
           /\ disk[i].path = Row(video.video_id).download_path
           /\ disk[i].size > 0

C34_CheckAroundEveryItem ==
    /\ (pc = "download_start" /\ mode \in {"cycle", "pending"}) => last_event = "check"
    /\ (pc = "dpi_return" /\ result = "success") => last_event = "check"

\* C35: an item whose stored payload path is set has that file on disk:
\* the path is cleared whenever a cleanup removes the file.
C35_StoredPathHasFile ==
    \A i \in 1..Len(videos) :
       videos[i].download_path # NoPath => Exists(disk, videos[i].download_path)

\* C36: eviction is oldest first: in a call of cleanup_temp_files that
\* meets no unlink error, every audio file older than a deleted file is
\* deleted too.
C36_OldestFirst ==
    [][(pc \in {"process_pending", "transcribe", "force_cleanup"} /\ cleanup_log'.errors = 0)
          => \A i \in Deleted :
                \A j \in 1..(i - 1) :
                   disk[j].path[2] \in AudioExts => j \in Deleted]_vars

\* the storage check of the transform stage has deleted one older audio
\* file and stopped; the younger file of the item in hand is still there
C36_Witness ==
    /\ pc = "transcribe_run"
    /\ cleanup_log.cleaned_count = 1
    /\ cleanup_log.errors = 0
    /\ Len(disk) = 1
    /\ disk[1].path = video.download_path
    /\ disk[1].size = 60
    /\ \E i \in 1..Len(videos) :
          /\ videos[i].video_id # video.video_id
          /\ videos[i].download_path # NoPath

\* C37: when the primary provider failed and the fallback succeeded, the
\* result saved for the item marks the speaker metadata absent with the
\* reason primary_failed.
C37_FallbackReason ==
    (pc = "mark_completed" /\ Len(calls) = 2 /\ ~calls[2].raised)
        => /\ written.saved
           /\ ~written.speakers_info.has_speaker_info
           /\ written.speakers_info.reason = "primary_failed"

\* C38: under cycles that are repeated for ever and run to completion,
\* every item in the table eventually is completed or failed.
C38_EveryItemTerminates ==
    \A id \in Ids :
       Known(id) ~> (Known(id) /\ Row(id).status \in {"completed", "failed"})

\* C39: whatever the sequence of start_monitoring and stop_monitoring
\* calls, the schedule holds at most one cycle job, and a tick makes a
\* thread run at most one cycle.
C39_OneJobPerTick ==
    /\ jobs <= 1
    /\ \A t \in Threads : due[t] <= 1


====
